---- MODULE Spec2Model ----
(***************************************************************************)
(* Bot classifier: the training procedure (train.py), the dataset          *)
(* aggregator (dataset.py), the feature extractor and classifier           *)
(* (model.py) and the serving process (main.py).                           *)
(*                                                                         *)
(* The training process and the serving process are two independently     *)
(* started operating-system processes.  They share nothing but the two    *)
(* artifact files model_stats.pkl and model.pth, so their steps           *)
(* interleave freely at the granularity of one file access.               *)
(*                                                                         *)
(* Abstractions: a file's content is the number of the training run that  *)
(* wrote it (0: no such file); a file write is atomic (a reader never     *)
(* meets a half-written artifact, which would end start-up with an        *)
(* unpickling error); the numeric runtime is opaque, so a score is any    *)
(* value of Scores and learned parameters are counted (optimizer steps,   *)
(* running-statistics updates) rather than computed.                      *)
(***************************************************************************)
EXTENDS Integers, Sequences, FiniteSets, TLC

\* ------------------------------------------------------------- bounds
MaxRuns == 2
MaxCount == 1
BulkCount == 80
MaxStrLen == 2

\* ------------------------------------------------- program constants
BatchSize == 64
Epochs == 5
QueryLimit == 50000

VARIABLES
    fs,          \* the working directory: file name -> run that wrote it, 0 = absent
    run,         \* number of train.py invocations so far
    trPc,        \* position of the training process
    trN,         \* len(full_dataset) of the current run
    epoch,       \* loop variable of `for epoch in range(5)`
    batch,       \* batches already drawn from the loader being iterated
    tmodel,      \* the training process's BotClassifier
    srvPc,       \* position of the serving process
    secret,      \* AI_CLASSIFIER_API_KEY in the serving process's environment
    stats,       \* main.py global `stats`: run that produced it, 0 = None
    model,       \* main.py global `model`
    log,         \* lines load_model has printed
    resp,        \* the last response the serving process sent
    data_dir,    \* aggregator check: the data directory given
    agg_result,  \* aggregator check: what get_combined_dataset did
    sample,      \* extractor check: the record given
    features     \* extractor check: what extract_features returned

trainVars == <<run, trPc, trN, epoch, batch, tmodel>>
serveVars == <<srvPc, secret, stats, model, log, resp>>
aggVars == <<data_dir, agg_result>>
featVars == <<sample, features>>
vars == <<fs, trainVars, serveVars, aggVars, featVars>>

STATS_FILE == "model_stats.pkl"
MODEL_FILE == "model.pth"
NoFile == 0

\* ------------------------------------------------ dataset aggregator
\* A source as the loader finds it: missing (no file matches), ok (n samples
\* parse out of it) or unreadable (the read or the parse raises).
SmallCounts == 0..MaxCount
QueryCounts == SmallCounts \cup {BulkCount}

SourcesWith(counts) ==
    {[status |-> "missing", n |-> 0]}
        \cup {[status |-> s, n |-> k] : s \in {"ok", "unreadable"}, k \in counts}

DataDirs ==
    [phase : SourcesWith(SmallCounts), csic : SourcesWith(SmallCounts),
     good : SourcesWith(QueryCounts), bad : SourcesWith(QueryCounts)]

Min(a, b) == IF a < b THEN a ELSE b

\* load_phase_data: glob finds nothing for a missing tree; open() and the
\* line iteration are not guarded, so a failing read propagates.
load_phase_data(src) ==
    CASE src.status = "missing"    -> [raised |-> FALSE, n |-> 0]
      [] src.status = "unreadable" -> [raised |-> TRUE,  n |-> 0]
      [] OTHER                     -> [raised |-> FALSE, n |-> src.n]

\* load_csic_data: os.path.exists guard, then read_csv and the row loop
\* inside try/except Exception.  Every row has the same columns, so a
\* failing read fails before the first append.
load_csic_data(src) ==
    CASE src.status = "missing"    -> [raised |-> FALSE, n |-> 0]
      [] src.status = "unreadable" -> [raised |-> FALSE, n |-> 0]
      [] OTHER                     -> [raised |-> FALSE, n |-> src.n]

\* load_query_data: os.path.exists guard, then an unguarded open() and loop,
\* at most `limit` lines.
load_query_data(src) ==
    CASE src.status = "missing"    -> [raised |-> FALSE, n |-> 0]
      [] src.status = "unreadable" -> [raised |-> TRUE,  n |-> 0]
      [] OTHER                     -> [raised |-> FALSE, n |-> Min(src.n, QueryLimit)]

NoSamples == [phase |-> 0, csic |-> 0, good |-> 0, bad |-> 0]

\* get_combined_dataset: the four loaders in order, each result appended to
\* all_samples; an exception of a loader leaves the function at once.
\* samples[k] is the number of samples source k contributed.
get_combined_dataset(d) ==
    LET p == load_phase_data(d.phase)
        c == load_csic_data(d.csic)
        g == load_query_data(d.good)
        b == load_query_data(d.bad)
    IN  IF p.raised \/ c.raised \/ g.raised \/ b.raised
        THEN [raised |-> TRUE, samples |-> NoSamples]
        ELSE [raised |-> FALSE,
              samples |-> [phase |-> p.n, csic |-> c.n, good |-> g.n, bad |-> b.n]]

\* UnifiedDataset.__len__
DatasetLen(s) == s.phase + s.csic + s.good + s.bad

\* ------------------------------------------------- feature extractor
\* Strings are sequences of one-character strings.  A field of a sample dict
\* is absent, or holds None, or a float NaN (what pandas hands out for an
\* empty cell), or a string.
LowerLetters == <<"a","b","c","d","e","f","g","h","i","j","k","l","m",
                  "n","o","p","q","r","s","t","u","v","w","x","y","z">>
UpperLetters == <<"A","B","C","D","E","F","G","H","I","J","K","L","M",
                  "N","O","P","Q","R","S","T","U","V","W","X","Y","Z">>
Digits == {"0","1","2","3","4","5","6","7","8","9"}
Range(f) == {f[i] : i \in DOMAIN f}

Absent == [kind |-> "absent", s |-> <<>>]
PyNone == [kind |-> "none", s |-> <<>>]
PyNaN == [kind |-> "nan", s |-> <<>>]
Str(s) == [kind |-> "str", s |-> s]

\* dict.get(key, default)
Get(v, default) == IF v.kind = "absent" THEN Str(default) ELSE v

\* str(value)
PyStr(v) ==
    CASE v.kind = "none" -> <<"N","o","n","e">>
      [] v.kind = "nan"  -> <<"n","a","n">>
      [] OTHER           -> v.s

\* str.upper()
UpperChar(c) ==
    IF c \in Range(LowerLetters)
    THEN UpperLetters[CHOOSE i \in DOMAIN LowerLetters : LowerLetters[i] = c]
    ELSE c
Upper(s) == [i \in DOMAIN s |-> UpperChar(s[i])]

isdigit(c) == c \in Digits
isalnum(c) == c \in Digits \cup Range(LowerLetters) \cup Range(UpperLetters)

\* str.count(ch) for a one-character ch
CountChar(s, ch) == Cardinality({i \in DOMAIN s : s[i] = ch})
CountDigits(s) == Cardinality({i \in DOMAIN s : isdigit(s[i])})
CountSpecial(s) == Cardinality({i \in DOMAIN s : ~isalnum(s[i])})

\* METHODS.get(method, 0)
METHODS(m) ==
    CASE m = <<"G","E","T">>                     -> 0
      [] m = <<"P","O","S","T">>                 -> 1
      [] m = <<"P","U","T">>                     -> 2
      [] m = <<"D","E","L","E","T","E">>         -> 3
      [] m = <<"H","E","A","D">>                 -> 4
      [] m = <<"O","P","T","I","O","N","S">>     -> 5
      [] m = <<"C","O","N","N","E","C","T">>     -> 6
      [] m = <<"T","R","A","C","E">>             -> 7
      [] m = <<"P","A","T","C","H">>             -> 8
      [] OTHER                                   -> 0

extract_features(smp) ==
    LET url    == PyStr(Get(smp.url, <<>>))
        method == Upper(PyStr(Get(smp.method, <<"G","E","T">>)))
        ua     == PyStr(Get(smp.user_agent, <<>>))
    IN  << METHODS(method),
           Len(url),
           CountChar(url, "/"),
           CountDigits(url),
           CountSpecial(url),
           Len(ua),
           CountDigits(ua) >>

\* The records the extractor is tried on.
Alphabet == {"a", "7", "/", "?"}
Strings == UNION {[1..k -> Alphabet] : k \in 0..MaxStrLen}
FieldValues == {Absent, PyNone, PyNaN} \cup {Str(s) : s \in Strings}
MethodValues ==
    {Absent, PyNone,
     Str(<<"G","E","T">>), Str(<<"g","e","t">>), Str(<<"P","o","s","t">>),
     Str(<<"P","A","T","C","H">>), Str(<<"d","e","l","e","t","e">>),
     Str(<<"B","R","E","W">>)}
Samples == [url : FieldValues, method : MethodValues, user_agent : FieldValues]

\* What the serving boundary hands to predict: RequestFeatures.dict(), all
\* three keys present and holding strings.
Requests ==
    {[url |-> Str(u), method |-> Str(<<"G","E","T">>), user_agent |-> Str(<<>>)]
        : u \in {<<"/">>, <<"/", "a", "?", "7">>}}

\* -------------------------------------------------------- classifier
\* A BotClassifier object: its mode flag, the optimizer steps applied to its
\* weights and the updates made to its batch-normalization running
\* statistics.  `weights` is the run whose state_dict was loaded into it
\* (0: freshly initialised).
NoModel == [weights |-> 0, mode |-> "none", steps |-> 0, bn |-> 0]

\* BotClassifier(): nn.Module starts in training mode.
BotClassifier == [weights |-> 0, mode |-> "train", steps |-> 0, bn |-> 0]

\* forward on a batch of n rows.  BatchNorm1d in training mode uses batch
\* statistics: it raises ValueError on a batch of one row and otherwise
\* updates its running statistics; in inference mode it changes nothing.
forward(m, n) ==
    IF m.mode = "train" /\ n = 1
    THEN [raised |-> TRUE, model |-> m]
    ELSE [raised |-> FALSE,
          model |-> IF m.mode = "train" THEN [m EXCEPT !.bn = @ + 1] ELSE m]

\* ------------------------------------------------ training procedure
TrainSize(n) == (4 * n) \div 5            \* int(0.8 * len(dataset))
ValSize(n) == n - TrainSize(n)
NumBatches(size) == (size + BatchSize - 1) \div BatchSize   \* len(DataLoader)
BatchLen(size, i) == Min(BatchSize, size - i * BatchSize)   \* rows of batch i

Stopped == {"idle", "aborted", "crashed", "done"}

IsEmptyDatasetNever(n) == FALSE
\* `if len(full_dataset) == 0`
IsEmptyDataset(n) == n = 0

\* What `full_dataset = get_combined_dataset(data_dir)` can do to train_model
\* over the data directories considered: raise, or return n samples.
CollectOutcomes ==
    {LET r == get_combined_dataset(d)
     IN  [raised |-> r.raised, n |-> DatasetLen(r.samples)] : d \in DataDirs}

\* train.py started: get_combined_dataset, then the empty check.
Collect ==
    /\ trPc \in Stopped
    /\ run < MaxRuns
    /\ run' = run + 1
    /\ epoch' = 0 /\ batch' = 0 /\ tmodel' = NoModel
    /\ \E o \in CollectOutcomes :
          IF o.raised
          THEN trPc' = "crashed" /\ trN' = 0
          ELSE /\ trN' = o.n
               /\ trPc' = IF IsEmptyDataset(o.n) THEN "aborted" ELSE "stats"
    /\ UNCHANGED <<fs, serveVars, aggVars, featVars>>

\* Features extracted, mean and std computed, model_stats.pkl written.
PersistStats ==
    /\ trPc = "stats"
    /\ fs' = [fs EXCEPT ![STATS_FILE] = run]
    /\ trPc' = "split"
    /\ UNCHANGED <<run, trN, epoch, batch, tmodel, serveVars, aggVars, featVars>>

\* random_split, the two DataLoaders, the classifier, loss and optimizer.
\* DataLoader(shuffle=True) builds a RandomSampler, which in some releases of
\* the library raises ValueError for an empty training split and in others
\* accepts it.
SplitAndInit ==
    /\ trPc = "split"
    /\ \/ /\ TrainSize(trN) = 0
          /\ trPc' = "crashed"
          /\ UNCHANGED tmodel
       \/ /\ tmodel' = BotClassifier
          /\ trPc' = "epoch"
    /\ UNCHANGED <<fs, run, trN, epoch, batch, serveVars, aggVars, featVars>>

\* Top of the epoch loop: model.train().
EpochStart ==
    /\ trPc = "epoch"
    /\ epoch < Epochs
    /\ tmodel' = [tmodel EXCEPT !.mode = "train"]
    /\ batch' = 0
    /\ trPc' = "train"
    /\ UNCHANGED <<fs, run, trN, epoch, serveVars, aggVars, featVars>>

\* One iteration of the loop over train_loader: forward, backward, step.
TrainBatch ==
    /\ trPc = "train"
    /\ batch < NumBatches(TrainSize(trN))
    /\ LET f == forward(tmodel, BatchLen(TrainSize(trN), batch))
       IN  IF f.raised
           THEN trPc' = "crashed" /\ UNCHANGED <<tmodel, batch>>
           ELSE /\ tmodel' = [f.model EXCEPT !.steps = @ + 1]
                /\ batch' = batch + 1
                /\ UNCHANGED trPc
    /\ UNCHANGED <<fs, run, trN, epoch, serveVars, aggVars, featVars>>

BeginValidationNoEval ==
    /\ trPc = "train"
    /\ batch = NumBatches(TrainSize(trN))
    /\ batch' = 0
    /\ trPc' = "val"
    /\ UNCHANGED <<fs, run, trN, epoch, tmodel, serveVars, aggVars, featVars>>
\* train_loader exhausted: model.eval(), val_acc = 0.
BeginValidation ==
    /\ trPc = "train"
    /\ batch = NumBatches(TrainSize(trN))
    /\ tmodel' = [tmodel EXCEPT !.mode = "eval"]
    /\ batch' = 0
    /\ trPc' = "val"
    /\ UNCHANGED <<fs, run, trN, epoch, serveVars, aggVars, featVars>>

\* One iteration of the loop over val_loader, under torch.no_grad(): forward
\* and the accuracy count, no optimizer step.
ValBatch ==
    /\ trPc = "val"
    /\ batch < NumBatches(ValSize(trN))
    /\ LET f == forward(tmodel, BatchLen(ValSize(trN), batch))
       IN  IF f.raised
           THEN trPc' = "crashed" /\ UNCHANGED <<tmodel, batch>>
           ELSE /\ tmodel' = f.model
                /\ batch' = batch + 1
                /\ UNCHANGED trPc
    /\ UNCHANGED <<fs, run, trN, epoch, serveVars, aggVars, featVars>>

\* val_loader exhausted: the epoch's print divides by len(train_loader) and
\* by val_size (ZeroDivisionError when either is 0); then the next epoch, or
\* the loop ends.
Report ==
    /\ trPc = "val"
    /\ batch = NumBatches(ValSize(trN))
    /\ IF NumBatches(TrainSize(trN)) = 0 \/ ValSize(trN) = 0
       THEN trPc' = "crashed" /\ UNCHANGED epoch
       ELSE /\ epoch' = epoch + 1
            /\ trPc' = IF epoch + 1 < Epochs THEN "epoch" ELSE "save"
    /\ UNCHANGED <<fs, run, trN, batch, tmodel, serveVars, aggVars, featVars>>

\* torch.save(model.state_dict(), "model.pth"), and train.py ends.
PersistModel ==
    /\ trPc = "save"
    /\ fs' = [fs EXCEPT ![MODEL_FILE] = run]
    /\ trPc' = "done"
    /\ UNCHANGED <<run, trN, epoch, batch, tmodel, serveVars, aggVars, featVars>>

\* -------------------------------------------------- serving procedure
NoValue == "<unset>"                   \* os.getenv / the header giving None
Secrets == {NoValue, "", "k1"}         \* AI_CLASSIFIER_API_KEY
Headers == {NoValue, "", "k1", "k2"}   \* x-api-key
NoStats == 0                           \* stats = None
Scores == {0, 1, 2}                    \* a score in halves: 0.0, 0.5, 1.0

STATS_LOADED == "Loaded normalization stats."
STATS_MISSING == "Stats file not found. Run train.py first."
MODEL_LOADED == "Loaded model weights."
MODEL_MISSING == "Model file not found. Run train.py first."

NoResp ==
    [op |-> "none", header |-> NoValue, code |-> 0, keys |-> {}, detail |-> "",
     bot_score |-> 0, is_bot |-> FALSE, model_loaded |-> FALSE]

\* raise HTTPException(status_code, detail): the body is {"detail": ...}
HttpError(op, h, code, detail) ==
    [NoResp EXCEPT !.op = op, !.header = h, !.code = code,
                   !.keys = {"detail"}, !.detail = detail]

get_api_key_header_first(h, correct) ==
    IF h = correct
    THEN [code |-> 200, detail |-> ""]
    ELSE IF correct = NoValue \/ correct = ""
         THEN [code |-> 500, detail |-> "Server misconfiguration: API Key not set"]
         ELSE [code |-> 403, detail |-> "Could not validate credentials"]
\* get_api_key: `if not correct_api_key` first, then the comparison.
get_api_key(h, correct) ==
    IF correct = NoValue \/ correct = ""
    THEN [code |-> 500, detail |-> "Server misconfiguration: API Key not set"]
    ELSE IF h = correct
         THEN [code |-> 200, detail |-> ""]
         ELSE [code |-> 403, detail |-> "Could not validate credentials"]

ModelOnlyUnavailable(m, s) == m = NoModel
\* `if model is None or stats is None`
ModelUnavailable(m, s) == m = NoModel \/ s = NoStats

load_state_dict_no_eval(r) == [BotClassifier EXCEPT !.weights = r]
\* model = BotClassifier(); model.load_state_dict(torch.load(...)); model.eval()
load_state_dict_eval(r) == [BotClassifier EXCEPT !.weights = r, !.mode = "eval"]

\* The serving process is started (or started again): module level of
\* main.py, globals model = None and stats = None, the environment read.
Launch ==
    /\ secret' \in Secrets
    /\ srvPc' = "load_stats"
    /\ stats' = NoStats
    /\ model' = NoModel
    /\ log' = {}
    /\ resp' = NoResp
    /\ UNCHANGED <<fs, trainVars, aggVars, featVars>>

\* load_model, part 1: model_stats.pkl.
LoadStats ==
    /\ srvPc = "load_stats"
    /\ IF fs[STATS_FILE] # NoFile
       THEN stats' = fs[STATS_FILE] /\ log' = log \cup {STATS_LOADED}
       ELSE stats' = NoStats /\ log' = log \cup {STATS_MISSING}
    /\ srvPc' = "load_model"
    /\ UNCHANGED <<fs, trainVars, secret, model, resp, aggVars, featVars>>

\* load_model, part 2: model.pth; the process then accepts requests.
LoadModel ==
    /\ srvPc = "load_model"
    /\ IF fs[MODEL_FILE] # NoFile
       THEN model' = load_state_dict_eval(fs[MODEL_FILE])
            /\ log' = log \cup {MODEL_LOADED}
       ELSE model' = NoModel /\ log' = log \cup {MODEL_MISSING}
    /\ srvPc' = "serving"
    /\ UNCHANGED <<fs, trainVars, secret, stats, resp, aggVars, featVars>>

\* GET /health
health_check ==
    /\ srvPc = "serving"
    /\ resp' = [NoResp EXCEPT !.op = "health", !.code = 200,
                              !.keys = {"status", "model_loaded"},
                              !.detail = "ok",
                              !.model_loaded = (model # NoModel)]
    /\ UNCHANGED <<fs, trainVars, srvPc, secret, stats, model, log, aggVars, featVars>>

\* POST /predict with a well-formed body: the get_api_key dependency, then
\* the handler.  An exception other than HTTPException (a feature vector
\* that does not broadcast against the 7 statistics, a ValueError of the
\* forward pass) leaves the handler as a 500 of the framework.
predict ==
    /\ srvPc = "serving"
    /\ \E h \in Headers, r \in Requests :
          LET auth == get_api_key(h, secret)
              x    == extract_features(r)
              f    == forward(model, 1)
          IN  IF auth.code # 200
              THEN /\ resp' = HttpError("predict", h, auth.code, auth.detail)
                   /\ UNCHANGED model
              ELSE IF ModelUnavailable(model, stats)
              THEN /\ resp' = HttpError("predict", h, 503, "Model not loaded")
                   /\ UNCHANGED model
              ELSE IF Len(x) # 7 \/ f.raised
              THEN /\ resp' = HttpError("predict", h, 500, "Internal Server Error")
                   /\ UNCHANGED model
              ELSE /\ model' = f.model
                   /\ \E score \in Scores :
                         resp' = [NoResp EXCEPT !.op = "predict", !.header = h,
                                                !.code = 200,
                                                !.keys = {"bot_score", "is_bot"},
                                                !.bot_score = score,
                                                !.is_bot = (score > 1)]
    /\ UNCHANGED <<fs, trainVars, srvPc, secret, stats, log, aggVars, featVars>>

\* --------------------------------------------------- the whole system
NoDir == [k \in {"phase", "csic", "good", "bad"} |-> [status |-> "missing", n |-> 0]]
NoResult == [called |-> FALSE, raised |-> FALSE, samples |-> NoSamples]
NoSample == [url |-> Absent, method |-> Absent, user_agent |-> Absent]

InitFiles == fs = [f \in {STATS_FILE, MODEL_FILE} |-> NoFile]
InitTrain ==
    /\ run = 0 /\ trPc = "idle" /\ trN = 0 /\ epoch = 0 /\ batch = 0
    /\ tmodel = NoModel
InitServe ==
    /\ srvPc = "load_stats" /\ stats = NoStats /\ model = NoModel
    /\ log = {} /\ resp = NoResp
InitAgg == data_dir = NoDir /\ agg_result = NoResult
InitFeat == sample = NoSample /\ features = <<>>

Init ==
    /\ InitFiles /\ InitTrain /\ InitServe /\ secret \in Secrets
    /\ InitAgg /\ InitFeat

Next ==
    \/ Collect \/ PersistStats \/ SplitAndInit \/ EpochStart \/ TrainBatch
    \/ BeginValidation \/ ValBatch \/ Report \/ PersistModel
    \/ Launch \/ LoadStats \/ LoadModel \/ health_check \/ predict

Spec == Init /\ [][Next]_vars

\* ------------------------------------- the aggregator, taken alone
AggCall ==
    /\ ~agg_result.called
    /\ LET r == get_combined_dataset(data_dir)
       IN  agg_result' = [called |-> TRUE, raised |-> r.raised, samples |-> r.samples]
    /\ UNCHANGED <<fs, trainVars, serveVars, data_dir, featVars>>

AggInit ==
    /\ InitFiles /\ InitTrain /\ InitServe /\ secret = NoValue /\ InitFeat
    /\ data_dir \in DataDirs /\ agg_result = NoResult

AggNext == AggCall

SpecAgg == AggInit /\ [][AggNext]_vars

\* ------------------------------------- the extractor, taken alone
Extract ==
    /\ features = <<>>
    /\ features' = extract_features(sample)
    /\ UNCHANGED <<fs, trainVars, serveVars, aggVars, sample>>

FeatInit ==
    /\ InitFiles /\ InitTrain /\ InitServe /\ secret = NoValue /\ InitAgg
    /\ sample \in Samples /\ features = <<>>

FeatNext == Extract

SpecFeat == FeatInit /\ [][FeatNext]_vars

\* ================================================================ claims
Ready == model # NoModel /\ stats # NoStats
Accepted(h) == get_api_key(h, secret).code = 200
ScoreKeys == {"bot_score", "is_bot"}

\* C1: when load_model found either artifact missing, every predict whose
\* credential is accepted is answered 503 "Model not loaded" with no
\* bot_score / is_bot field; a 200 with a score is sent only by a process
\* whose load_model found both artifacts.
C1_DegradedNeverScores ==
    resp.op = "predict" =>
        /\ (/\ (STATS_MISSING \in log \/ MODEL_MISSING \in log)
            /\ Accepted(resp.header))
              => /\ resp.code = 503
                 /\ resp.detail = "Model not loaded"
                 /\ resp.keys \cap ScoreKeys = {}
        /\ (resp.code = 200 \/ resp.keys \cap ScoreKeys # {})
              => /\ STATS_LOADED \in log /\ MODEL_LOADED \in log
                 /\ STATS_MISSING \notin log /\ MODEL_MISSING \notin log

\* A training run stopped after writing statistics, the service started on
\* statistics without weights, and an authenticated predict got its 503.
C1_Witness ==
    /\ srvPc = "serving"
    /\ STATS_LOADED \in log /\ MODEL_MISSING \in log
    /\ resp.op = "predict" /\ resp.header = secret /\ secret = "k1"
    /\ resp.code = 503 /\ resp.keys = {"detail"}

\* C2: whenever serving is ready, the statistics and the weights it loaded
\* were produced by the same training run.
C2_TrainServeParity ==
    (srvPc = "serving" /\ Ready) => stats = model.weights

\* C3: health answers 200 "ok" and its model_loaded is true exactly when the
\* serving state is ready, so model_loaded = true means an authenticated
\* predict is scored.
C3_HealthReportsReady ==
    (srvPc = "serving" /\ resp.op = "health") =>
        /\ resp.code = 200 /\ resp.detail = "ok"
        /\ resp.model_loaded <=> Ready

\* C4: predict decides in the order secret unset or empty -> 500, credential
\* absent or different -> 403, model or statistics not loaded -> 503,
\* otherwise 200 with a score; the three error outcomes leave the serving
\* state as it was.
C4_Outcome ==
    resp.op = "predict" =>
        LET noSecret == secret = NoValue \/ secret = ""
            badCred  == resp.header # secret
        IN  /\ noSecret => resp.code = 500
            /\ (~noSecret /\ badCred) => resp.code = 403
            /\ (~noSecret /\ ~badCred /\ ~Ready) => resp.code = 503
            /\ (~noSecret /\ ~badCred /\ Ready)
                  => resp.code = 200 /\ resp.keys = ScoreKeys
            /\ resp.code \in {500, 403, 503} => resp.keys = {"detail"}

C4_ErrorKeepsState ==
    (/\ srvPc = "serving" /\ srvPc' = "serving"
     /\ resp'.op = "predict" /\ resp'.code \in {500, 403, 503})
        => UNCHANGED <<srvPc, secret, stats, model, log>>

C4_CheckOrder == []C4_Outcome /\ [][C4_ErrorKeepsState]_vars

\* A request without the header, secret configured: 403 although ready.
C4_Witness ==
    /\ srvPc = "serving" /\ Ready /\ secret = "k1"
    /\ resp.op = "predict" /\ resp.header = NoValue /\ resp.code = 403

\* C5: once load_model has finished, no health or predict call changes the
\* loaded statistics, the loaded weights or the mode flag, and the classifier
\* is in inference mode whenever it is loaded, so at every scoring predict.
C5_InferenceMode ==
    (srvPc = "serving" /\ model # NoModel) => model.mode = "eval"

C5_NoChange ==
    (srvPc = "serving" /\ srvPc' = "serving") => UNCHANGED <<stats, model, log>>

C5_ReadOnlyAfterLoad == []C5_InferenceMode /\ [][C5_NoChange]_vars

C5_Witness ==
    /\ srvPc = "serving" /\ Ready /\ model.mode = "eval" /\ model.bn = 0
    /\ resp.op = "predict" /\ resp.code = 200

\* C6: every run that collected N >= 1 samples completes 5 epochs and writes
\* model.pth; no such run stops between the two artifacts.
C6_EveryRunPersists ==
    (trPc \in Stopped /\ trN >= 1) =>
        trPc = "done" /\ epoch = Epochs /\ fs[MODEL_FILE] = run

\* C7: a run whose dataset is empty aborts, and neither artifact is created
\* or overwritten by it.
C7_EmptyMeansAborted ==
    trN = 0 => trPc \in {"idle", "aborted", "crashed"}

C7_AbortedWritesNothing == trPc' = "aborted" => fs' = fs

C7_EmptyRunWritesNothing ==
    []C7_EmptyMeansAborted /\ [][C7_AbortedWritesNothing]_vars

\* A second run found no samples; the first run's artifacts are still there.
C7_Witness ==
    /\ trPc = "aborted" /\ run = 2
    /\ fs[STATS_FILE] = 1 /\ fs[MODEL_FILE] = 1

\* C8: a source whose read fails contributes zero samples, never aborts the
\* aggregation, and every other source's samples are returned.
C8_PartialFailureTolerant ==
    agg_result.called =>
        /\ ~agg_result.raised
        /\ \A k \in DOMAIN data_dir :
              agg_result.samples[k] =
                  IF data_dir[k].status = "ok" THEN data_dir[k].n ELSE 0

\* C9: a url or user_agent that is absent or carries no value counts as the
\* empty string: the features derived from it are 0, the vector has 7
\* positions, nothing is raised.
C9_MissingIsEmpty ==
    features # <<>> =>
        /\ Len(features) = 7
        /\ sample.url.kind # "str" =>
              features[2] = 0 /\ features[3] = 0 /\ features[4] = 0 /\ features[5] = 0
        /\ sample.user_agent.kind # "str" => features[6] = 0 /\ features[7] = 0

\* C10: in a training run the classifier is in training mode throughout a
\* training pass and in inference mode throughout a validation pass; weights
\* and running statistics change only in training passes; model.pth is
\* written only after the fifth validation pass, by a model that went
\* through exactly 5 training passes.
C10_ModeByPass ==
    /\ trPc = "train" => tmodel.mode = "train"
    /\ trPc = "val" => tmodel.mode = "eval"
    /\ epoch <= Epochs
    /\ trPc \in {"save", "done"} =>
          /\ epoch = Epochs /\ tmodel.mode = "eval"
          /\ tmodel.steps = Epochs * NumBatches(TrainSize(trN))
          /\ tmodel.bn = tmodel.steps

C10_ParamsChangeInTraining ==
    (trPc \notin Stopped /\ (tmodel'.steps # tmodel.steps \/ tmodel'.bn # tmodel.bn))
        => trPc = "train" /\ trPc' = "train" /\ tmodel.mode = "train"

C10_SaveAfterFifth ==
    fs'[MODEL_FILE] # fs[MODEL_FILE] =>
        trPc = "save" /\ epoch = Epochs /\ tmodel.mode = "eval"

C10_ModeAlternation ==
    /\ []C10_ModeByPass
    /\ [][C10_ParamsChangeInTraining]_vars
    /\ [][C10_SaveAfterFifth]_vars

\* A run with two training batches per pass has finished.
C10_Witness ==
    /\ trPc = "done" /\ NumBatches(TrainSize(trN)) = 2
    /\ tmodel.steps = 10 /\ fs[MODEL_FILE] = run

====
